---- MODULE Spec2Model ----
(***************************************************************************)
(* The local dev registry of packages/wrangler/src/dev-registry.tsx:       *)
(* several wrangler processes on one host, each running the module with   *)
(* its own module state, coordinating through the well-known port and the *)
(* ephemeral ports of their hand-off receivers.                           *)
(*                                                                         *)
(* A step of the model is one uninterrupted piece of JavaScript of one    *)
(* process (from one await to the next), or one HTTP request handled by   *)
(* the process that serves it together with what the handler does before  *)
(* its first await. Each process has at most one API call outstanding,    *)
(* next to which its hand-off receiver may be serving a push.             *)
(* terminator.terminate() is taken to close the listening socket when it  *)
(* is called.                                                              *)
(***************************************************************************)
EXTENDS Integers, FiniteSets, Sequences, TLC

\* ---------------------------------------------------------------- bounds
NumProcs == 2          \* wrangler processes on the host
MaxPorts == 2          \* hand-off receivers created in a run (one per registerWorker call)
MaxLen == 2            \* bindings in a services list or a durable_objects bindings list

Procs == 1..NumProcs
Names == {"a", "b"}                 \* worker names (req.params.workerId)
NoPort == 0                         \* handOffReceiverPort undefined
BogusPort == MaxPorts + 1           \* a handOffReceiverPort a caller put inside its definition

\* A WorkerDefinition (lines 25-35): every field but handOffReceiverPort is
\* carried as one opaque value, handOffReceiverPort apart (NoPort: absent).
WorkerDefinition(v, hp) == [val |-> v, handOffReceiverPort |-> hp]
\* the definitions callers pass to registerWorker
CallerDefs == {WorkerDefinition("d1", NoPort), WorkerDefinition("d2", BogusPort)}

EmptyRegistry == [n \in {} |-> WorkerDefinition("d1", NoPort)]

\* The arguments of getBoundRegisteredWorkers (lines 248-252): services, a list
\* of bindings given by their service name, or undefined; durableObjects, an
\* object whose bindings list is given by the script_name of each, or undefined.
BindingLists == UNION {[1..n -> Names] : n \in 0..MaxLen}
Undefined == [defined |-> FALSE, list |-> <<>>]
Bindings == {Undefined} \cup {[defined |-> TRUE, list |-> l] : l \in BindingLists}

VARIABLES
    pc,                  \* pc[p]: where process p's outstanding API call stands ("idle": none)
    arg,                 \* arg[p]: the arguments and locals of that call
    hpc,                 \* hpc[p]: where p's hand-off receiver POST / handler stands
    hfrom,               \* hfrom[p]: the process whose push that handler is serving
    server,              \* server[p]: the module variable `server` is set (line 16)
    bound,               \* bound[p]: p's registry server listens on the well-known port
    workers,             \* workers[p]: the module variable `workers` (line 62)
    receivers,           \* receivers[p]: ports of p's hand-off receivers that are listening
    handOffReceiverPort, \* handOffReceiverPort[p]: the module variable (line 20)
    handOffReceiverTerminator, \* port of the receiver the terminator of line 21 stops (NoPort: none listening)
    nextPort,            \* the ephemeral port the next hand-off receiver asks for
    ret,                 \* the outcome of the API call that completed in the last step (NoRet: none did)
    started,             \* history: the processes that have called startWorkerRegistry
    roundTrip,           \* history: the last registration stored and not disturbed since
    deleted              \* history: names whose unregisterWorker completed, not re-registered since

core == <<pc, arg, hpc, hfrom, server, bound, workers, receivers,
          handOffReceiverPort, handOffReceiverTerminator, nextPort, ret>>
vars == <<pc, arg, hpc, hfrom, server, bound, workers, receivers,
          handOffReceiverPort, handOffReceiverTerminator, nextPort, ret,
          started, roundTrip, deleted>>

\* arg[p], of a registerWorker call: name, orig (the caller's definition), def
\* (the request body of line 187), rport (the port its receiver obtained), free
\* (no registry server was bound when it was called); of an unregisterWorker
\* call: name, target (the chosen receiver port), owner (p's server was bound
\* when handOff began), cand (another process listened on a registered
\* receiver port then), body (the pushed registry), pushfail (the fetch of
\* lines 116-122 threw); of a startWorkerRegistry call: free (its probe found
\* the port free); of a getBoundRegisteredWorkers call: services, durableObjects.
NoArg == [name |-> "a", orig |-> WorkerDefinition("d1", NoPort),
          def |-> WorkerDefinition("d1", NoPort), rport |-> NoPort, free |-> FALSE,
          target |-> NoPort, owner |-> FALSE, cand |-> FALSE, body |-> EmptyRegistry,
          pushfail |-> FALSE, services |-> Undefined, durableObjects |-> Undefined]
\* ret: who called what (proc, op, name); served: a registry server answered
\* the call's request; code: the error code when none did; raised: the call
\* threw; defined and reg: the registry returned (not defined: undefined);
\* call: arg[p] at the end of the call.
NoRet == [proc |-> 0, op |-> "none", served |-> FALSE, code |-> "", raised |-> FALSE,
          defined |-> FALSE, reg |-> EmptyRegistry, call |-> NoArg]
Ret(p, op, served, code, raised, defined, reg, a) ==
    [proc |-> p, op |-> op, served |-> served, code |-> code, raised |-> raised,
     defined |-> defined, reg |-> reg, call |-> a]
Done(p, op, a) == Ret(p, op, TRUE, "", FALSE, FALSE, EmptyRegistry, a)

NoRoundTrip == [on |-> FALSE, at |-> 0, name |-> "a", orig |-> WorkerDefinition("d1", NoPort),
                rport |-> NoPort]

Init ==
    /\ pc = [p \in Procs |-> "idle"]
    /\ arg = [p \in Procs |-> NoArg]
    /\ hpc = [p \in Procs |-> "idle"]
    /\ hfrom = [p \in Procs |-> 0]
    /\ server = [p \in Procs |-> FALSE]
    /\ bound = [p \in Procs |-> FALSE]
    /\ workers = [p \in Procs |-> EmptyRegistry]
    /\ receivers = [p \in Procs |-> {}]
    /\ handOffReceiverPort = [p \in Procs |-> NoPort]
    /\ handOffReceiverTerminator = [p \in Procs |-> NoPort]
    /\ nextPort = 1
    /\ ret = NoRet
    /\ started = {}
    /\ roundTrip = NoRoundTrip
    /\ deleted = {}

\* ---------------------------------------------------------------- helpers
\* a delete that empties the object
RemoveAll(w, n) == EmptyRegistry

\* workers[name] = body (line 77) and delete workers[name] (line 81) on a JS object
Put(w, n, d) == [k \in (DOMAIN w) \cup {n} |-> IF k = n THEN d ELSE w[k]]
Remove(w, n) == [k \in (DOMAIN w) \ {n} |-> w[k]]

Alive(p) == pc[p] # "failed"
\* p is between the probe's resolve(true) and the rest of lines 69-90: the
\* continuation runs in the same turn of p's event loop, no other JavaScript
\* of p runs in between (other processes do).
InListen(p) == pc[p] = "sw_listen" \/ hpc[p] = "h_listen"
CanRun(p) == Alive(p) /\ ~InListen(p)

\* The net server of a probe (line 56) holds the well-known port
ProbeHoldsPort == \E q \in Procs : pc[q] = "sw_probe" \/ hpc[q] = "h_probe"
\* Some socket of some process is bound to the well-known port
PortInUse == ProbeHoldsPort \/ \E q \in Procs : bound[q]

\* a listen that binds the port whoever holds it
BindAlways == TRUE

\* listen(DEV_REGISTRY_PORT) of lines 56 and 90: the operating system lets one
\* socket at a time bind the port, every other attempt gets EADDRINUSE.
BindSucceeds == ~PortInUse

\* The process that serves requests to http://localhost:6284 (line 14), 0 when
\* no registry server is bound.
Owner == IF \E q \in Procs : bound[q] THEN CHOOSE q \in Procs : bound[q] ELSE 0

\* The error codes a fetch to the well-known port can fail with when no
\* registry server is bound: refused when nothing listens; when a probe's net
\* server holds the port the connection is accepted and dropped unanswered.
FetchErrors == IF ProbeHoldsPort THEN {"ECONNRESET", "OTHER"} ELSE {"ECONNREFUSED"}

\* a catch block that knows connection refused only
RefusedOnly(code) == code = "ECONNREFUSED"

\* lines 191-193, 213-215, 234-236: the codes the catch blocks treat as "no registry"
NoRegistryCode(code) == code \in {"ECONNRESET", "ECONNREFUSED"}

\* An 'error' event on a server without an 'error' listener (line 90 has none:
\* EADDRINUSE after losing the port between probe and listen) is thrown by the
\* event emitter and ends the node process: its sockets close, and a process
\* waiting for its hand-off receiver's response gets a connection error
\* (caught at line 124).
Crash(p) ==
    /\ pc' = [q \in Procs |->
                IF q = p THEN "failed"
                ELSE IF pc[q] = "ho_wait" /\ hpc[p] # "idle" /\ hfrom[p] = q THEN "ho_stop"
                ELSE pc[q]]
    /\ arg' = [q \in Procs |->
                 IF q # p /\ pc[q] = "ho_wait" /\ hpc[p] # "idle" /\ hfrom[p] = q
                   THEN [arg[q] EXCEPT !.pushfail = TRUE] ELSE arg[q]]
    /\ hpc' = [hpc EXCEPT ![p] = "idle"]
    /\ bound' = [bound EXCEPT ![p] = FALSE]
    /\ receivers' = [receivers EXCEPT ![p] = {}]

\* ------------------------------------------------- startWorkerRegistry (68-92)
\* a test that lets every call with a free probe create a server
AnyServerHandle(p) == TRUE

\* line 69, `!server`: the module variable holds no server
NoServerHandle(p) == ~server[p]

\* line 69, first half: isPortAvailable() binds a net server to the port
\* (line 56). EADDRINUSE resolves false (line 47) and the call is over.
StartCall(p) ==
    /\ pc[p] = "idle" /\ CanRun(p)
    /\ IF BindSucceeds
         THEN /\ pc' = [pc EXCEPT ![p] = "sw_probe"]
              /\ ret' = NoRet
         ELSE /\ pc' = pc
              /\ ret' = Done(p, "start", NoArg)
    /\ UNCHANGED <<arg, hpc, hfrom, server, bound, workers, receivers,
                   handOffReceiverPort, handOffReceiverTerminator, nextPort>>

\* lines 52-55: 'listening' closes the probe's net server and resolves true
StartProbeClose(p) ==
    /\ pc[p] = "sw_probe" /\ CanRun(p)
    /\ pc' = [pc EXCEPT ![p] = "sw_listen"]
    /\ ret' = NoRet
    /\ UNCHANGED <<arg, hpc, hfrom, server, bound, workers, receivers,
                   handOffReceiverPort, handOffReceiverTerminator, nextPort>>

\* line 69, second half, to line 90: with no server handle yet, create the
\* server and the terminator and listen on the well-known port.
StartListen(p) ==
    /\ pc[p] = "sw_listen"
    /\ IF ~NoServerHandle(p)
         THEN /\ pc' = [pc EXCEPT ![p] = "idle"]
              /\ ret' = Done(p, "start", [NoArg EXCEPT !.free = TRUE])
              /\ UNCHANGED <<arg, server, bound, hpc, receivers>>
         ELSE /\ server' = [server EXCEPT ![p] = TRUE]
              /\ IF BindSucceeds
                   THEN /\ bound' = [bound EXCEPT ![p] = TRUE]
                        /\ pc' = [pc EXCEPT ![p] = "idle"]
                        /\ ret' = Done(p, "start", [NoArg EXCEPT !.free = TRUE])
                        /\ UNCHANGED <<arg, hpc, receivers>>
                   ELSE /\ Crash(p)
                        /\ ret' = NoRet
    /\ UNCHANGED <<hfrom, workers, handOffReceiverPort,
                   handOffReceiverTerminator, nextPort>>

\* ------------------------------------------- the registry's endpoints (72-87)
\* the JSON bodies a client can POST to /workers/:workerId
Bodies == {WorkerDefinition(v, hp) : v \in {"d1", "d2"}, hp \in NoPort..MaxPorts}

\* lines 73-75: GET /workers
GetWorkers ==
    /\ Owner # 0 /\ CanRun(Owner)
    /\ ret' = Ret(Owner, "GET", TRUE, "", FALSE, TRUE, workers[Owner], NoArg)
    /\ UNCHANGED <<pc, arg, hpc, hfrom, server, bound, workers, receivers,
                   handOffReceiverPort, handOffReceiverTerminator, nextPort>>

\* lines 76-79: POST /workers/:workerId
PostWorker(workerId, body) ==
    /\ Owner # 0 /\ CanRun(Owner)
    /\ workers' = [workers EXCEPT ![Owner] = Put(@, workerId, body)]
    /\ ret' = Ret(Owner, "POST", TRUE, "", FALSE, FALSE, EmptyRegistry,
                  [NoArg EXCEPT !.name = workerId, !.def = body])
    /\ UNCHANGED <<pc, arg, hpc, hfrom, server, bound, receivers,
                   handOffReceiverPort, handOffReceiverTerminator, nextPort>>

\* lines 80-83: DELETE /workers/:workerId
DeleteWorker(workerId) ==
    /\ Owner # 0 /\ CanRun(Owner)
    /\ workers' = [workers EXCEPT ![Owner] = Remove(@, workerId)]
    /\ ret' = Ret(Owner, "DELETE", TRUE, "", FALSE, FALSE, EmptyRegistry,
                  [NoArg EXCEPT !.name = workerId])
    /\ UNCHANGED <<pc, arg, hpc, hfrom, server, bound, receivers,
                   handOffReceiverPort, handOffReceiverTerminator, nextPort>>

\* lines 84-87: DELETE /workers
DeleteWorkers ==
    /\ Owner # 0 /\ CanRun(Owner)
    /\ workers' = [workers EXCEPT ![Owner] = EmptyRegistry]
    /\ ret' = Ret(Owner, "DELETEALL", TRUE, "", FALSE, FALSE, EmptyRegistry, NoArg)
    /\ UNCHANGED <<pc, arg, hpc, hfrom, server, bound, receivers,
                   handOffReceiverPort, handOffReceiverTerminator, nextPort>>

\* ------------------------------------------------------ registerWorker (155-200)
\* a merge in which the caller's own handOffReceiverPort wins
MergeKeepingCallers(def, hp) ==
    WorkerDefinition(def.val, IF def.handOffReceiverPort # NoPort
                                THEN def.handOffReceiverPort ELSE hp)

\* line 187: { ...definition, handOffReceiverPort } through JSON.stringify:
\* the module variable overrides the caller's field, and undefined drops it.
MergeDefinition(def, hp) == WorkerDefinition(def.val, hp)

\* lines 159-187: a new hand-off receiver replaces the module's handle and
\* terminator (lines 167-170) and listens on an ephemeral port; when address()
\* gives no port (line 173, ok = FALSE) handOffReceiverPort keeps its old
\* value. The request body is built when fetch is called (line 187).
RegisterCall(p, name, def, ok) ==
    /\ pc[p] = "idle" /\ CanRun(p)
    /\ nextPort <= MaxPorts
    /\ nextPort' = nextPort + 1
    /\ IF ok
         THEN /\ receivers' = [receivers EXCEPT ![p] = @ \cup {nextPort}]
              /\ handOffReceiverPort' = [handOffReceiverPort EXCEPT ![p] = nextPort]
              /\ handOffReceiverTerminator' = [handOffReceiverTerminator EXCEPT ![p] = nextPort]
         ELSE /\ handOffReceiverTerminator' = [handOffReceiverTerminator EXCEPT ![p] = NoPort]
              /\ UNCHANGED <<receivers, handOffReceiverPort>>
    /\ arg' = [arg EXCEPT ![p] = [NoArg EXCEPT !.name = name, !.orig = def,
                                   !.def = MergeDefinition(def, handOffReceiverPort'[p]),
                                   !.rport = IF ok THEN nextPort ELSE NoPort,
                                   !.free = (Owner = 0)]]
    /\ pc' = [pc EXCEPT ![p] = "rw_post"]
    /\ ret' = NoRet
    /\ UNCHANGED <<hpc, hfrom, server, bound, workers>>

\* lines 181-199: POST /workers/:workerId, handled at lines 76-79 by the
\* process bound to the port; a failed fetch is logged, whatever its code,
\* and the call returns undefined.
RegisterPost(p) ==
    /\ pc[p] = "rw_post" /\ CanRun(p)
    /\ IF Owner # 0
         THEN /\ CanRun(Owner)
              /\ workers' = [workers EXCEPT ![Owner] = Put(@, arg[p].name, arg[p].def)]
              /\ ret' = Ret(p, "register", TRUE, "", FALSE, TRUE, EmptyRegistry, arg[p])
         ELSE /\ workers' = workers
              /\ \E code \in FetchErrors :
                    ret' = Ret(p, "register", FALSE, code, FALSE, FALSE, EmptyRegistry, arg[p])
    /\ pc' = [pc EXCEPT ![p] = "idle"]
    /\ arg' = [arg EXCEPT ![p] = NoArg]
    /\ UNCHANGED <<hpc, hfrom, server, bound, receivers,
                   handOffReceiverPort, handOffReceiverTerminator, nextPort>>

\* ------------------------------------------------ getRegisteredWorkers (226-241)
\* lines 229-240: GET /workers answered at lines 73-75; a failed fetch gives
\* undefined for the codes of line 234 and is thrown again otherwise.
GetRegisteredWorkers(p) ==
    /\ pc[p] = "idle" /\ CanRun(p)
    /\ IF Owner # 0
         THEN /\ CanRun(Owner)
              /\ ret' = Ret(p, "get", TRUE, "", FALSE, TRUE, workers[Owner], NoArg)
         ELSE \E code \in FetchErrors :
                ret' = Ret(p, "get", FALSE, code, ~NoRegistryCode(code), FALSE,
                           EmptyRegistry, NoArg)
    /\ UNCHANGED <<pc, arg, hpc, hfrom, server, bound, workers, receivers,
                   handOffReceiverPort, handOffReceiverTerminator, nextPort>>

\* ------------------------------------------- getBoundRegisteredWorkers (247-269)
\* lines 254-256 and 257-259: `x || default`, then the names the bindings carry
serviceNames(services) == IF services.defined THEN services.list ELSE <<>>
durableObjectServices(durableObjects) ==
    IF durableObjects.defined THEN durableObjects.list ELSE <<>>

\* Array.prototype.includes
includes(list, key) == \E i \in 1..Len(list) : list[i] = key

\* a filter that looks at the services only
filteredServicesOnly(workerDefinitions, sn, dos) ==
    [k \in {key \in DOMAIN workerDefinitions : includes(sn, key)} |-> workerDefinitions[k]]

\* lines 262-267: the entries whose key is in either list
filteredWorkers(workerDefinitions, sn, dos) ==
    [k \in {key \in DOMAIN workerDefinitions : includes(sn, key) \/ includes(dos, key)}
        |-> workerDefinitions[k]]

\* lines 254-268: the registry of getRegisteredWorkers (line 261), {} when it
\* is undefined, filtered; an error getRegisteredWorkers throws goes through.
getBoundRegisteredWorkers(p, services, durableObjects) ==
    /\ pc[p] = "idle" /\ CanRun(p)
    /\ LET call == [NoArg EXCEPT !.services = services, !.durableObjects = durableObjects]
           sn == serviceNames(services)
           dos == durableObjectServices(durableObjects)
       IN IF Owner # 0
            THEN /\ CanRun(Owner)
                 /\ ret' = Ret(p, "getBound", TRUE, "", FALSE, TRUE,
                               filteredWorkers(workers[Owner], sn, dos), call)
            ELSE \E code \in FetchErrors :
                   ret' = Ret(p, "getBound", FALSE, code, ~NoRegistryCode(code),
                              NoRegistryCode(code),
                              filteredWorkers(EmptyRegistry, sn, dos), call)
    /\ UNCHANGED <<pc, arg, hpc, hfrom, server, bound, workers, receivers,
                   handOffReceiverPort, handOffReceiverTerminator, nextPort>>

\* ---------------------------------------------------- unregisterWorker (205-221)
\* lines 207-209: DELETE /workers/:workerId, handled at lines 80-83 by the
\* process bound to the port. A failed fetch goes to the catch of line 211,
\* which swallows the codes of line 213 and throws the others again: line 210
\* is skipped either way.
Unregister(p, name) ==
    /\ pc[p] = "idle" /\ CanRun(p)
    /\ IF Owner # 0
         THEN /\ CanRun(Owner)
              /\ workers' = [workers EXCEPT ![Owner] = Remove(@, name)]
              /\ pc' = [pc EXCEPT ![p] = "ho_begin"]
              /\ arg' = [arg EXCEPT ![p] = [NoArg EXCEPT !.name = name]]
              /\ ret' = NoRet
         ELSE /\ \E code \in FetchErrors :
                    ret' = Ret(p, "unregister", FALSE, code, ~NoRegistryCode(code), FALSE,
                               EmptyRegistry, [NoArg EXCEPT !.name = name])
              /\ UNCHANGED <<workers, pc, arg>>
    /\ UNCHANGED <<hpc, hfrom, server, bound, receivers,
                   handOffReceiverPort, handOffReceiverTerminator, nextPort>>

\* ------------------------------------------------------------ handOff (94-136)
\* a filter that takes every entry of `workers`
handOffableAll(p) == DOMAIN workers[p]

\* lines 96-100: the names of this process's `workers` whose definition carries
\* a handOffReceiverPort other than the module's current handOffReceiverPort
handOffableWorkers(p) ==
    {n \in DOMAIN workers[p] :
        /\ workers[p][n].handOffReceiverPort # NoPort
        /\ workers[p][n].handOffReceiverPort # handOffReceiverPort[p]}

\* a shutdown that is skipped when the push has failed
stopReceiverUnlessFailed(p) ==
    receivers' = [receivers EXCEPT ![p] =
                    IF arg[p].pushfail THEN @ ELSE @ \ {handOffReceiverTerminator[p]}]

\* stopHandOffReceiverServer (148-150): the terminator of the receiver that the
\* last registerWorker call created closes that receiver
stopHandOffReceiverServer(p) ==
    receivers' = [receivers EXCEPT ![p] = @ \ {handOffReceiverTerminator[p]}]

\* a stop that leaves the registry server listening
stopNoRegistry(p) == bound' = bound

\* stopWorkerRegistry (141-143): terminator?.terminate() releases the port when
\* a terminator exists (it exists exactly when `server` is set, lines 88-89)
stopWorkerRegistry(p) ==
    bound' = [bound EXCEPT ![p] = IF server[p] THEN FALSE ELSE @]

\* Some process other than p listens on a receiver port registered in p's `workers`
OtherReceiverRegistered(p) ==
    \E n \in DOMAIN workers[p], q \in Procs \ {p} :
        workers[p][n].handOffReceiverPort \in receivers[q]

\* lines 95-114 and 127-135 up to the first await: with a server handle and a
\* candidate, choose one (line 105: any index) and stop the registry (114);
\* with a server handle and no candidate stop the registry (134); with no
\* server handle lines 134-135 run through and the receiver is stopped.
HandOffBegin(p) ==
    /\ pc[p] = "ho_begin" /\ CanRun(p)
    /\ stopWorkerRegistry(p)
    /\ IF server[p]
         THEN /\ receivers' = receivers
              /\ ret' = NoRet
              /\ IF handOffableWorkers(p) # {}
                   THEN \E chosen \in handOffableWorkers(p) :
                          /\ arg' = [arg EXCEPT ![p].target =
                                        workers[p][chosen].handOffReceiverPort,
                                                ![p].owner = bound[p],
                                                ![p].cand = OtherReceiverRegistered(p)]
                          /\ pc' = [pc EXCEPT ![p] = "ho_push"]
                   ELSE /\ pc' = [pc EXCEPT ![p] = "ho_stoprecv"]
                        /\ arg' = [arg EXCEPT ![p].owner = bound[p]]
         ELSE /\ stopHandOffReceiverServer(p)
              /\ pc' = [pc EXCEPT ![p] = "idle"]
              /\ arg' = [arg EXCEPT ![p] = NoArg]
              /\ ret' = Done(p, "unregister", arg[p])
    /\ UNCHANGED <<hpc, hfrom, server, workers,
                   handOffReceiverPort, handOffReceiverTerminator, nextPort>>

\* The process whose hand-off receiver listens on port hp, 0 if none does
ReceiverAt(hp) ==
    IF \E q \in Procs : hp \in receivers[q]
      THEN CHOOSE q \in Procs : hp \in receivers[q] ELSE 0

\* lines 116-122 and 161-163: the POST of JSON.stringify(workers) reaches the
\* receiver on the chosen port, whose handler replaces `workers` and enters
\* startWorkerRegistry (its probe binds, line 56, or resolves false); a
\* connection error is caught at line 124.
HandOffPush(p) ==
    /\ pc[p] = "ho_push" /\ CanRun(p)
    /\ arg' = [arg EXCEPT ![p].body = workers[p],
                          ![p].pushfail = (ReceiverAt(arg[p].target) = 0)]
    /\ LET q == ReceiverAt(arg[p].target) IN
        IF q # 0
          THEN /\ CanRun(q) /\ hpc[q] = "idle"
               /\ workers' = [workers EXCEPT ![q] = workers[p]]
               /\ IF BindSucceeds
                    THEN /\ hpc' = [hpc EXCEPT ![q] = "h_probe"]
                         /\ hfrom' = [hfrom EXCEPT ![q] = p]
                         /\ pc' = [pc EXCEPT ![p] = "ho_wait"]
                    ELSE /\ pc' = [pc EXCEPT ![p] = "ho_stop"]
                         /\ UNCHANGED <<hpc, hfrom>>
          ELSE /\ pc' = [pc EXCEPT ![p] = "ho_stop"]
               /\ UNCHANGED <<workers, hpc, hfrom>>
    /\ ret' = NoRet
    /\ UNCHANGED <<server, bound, receivers,
                   handOffReceiverPort, handOffReceiverTerminator, nextPort>>

\* lines 52-55 inside the receiver's handler
HandlerProbeClose(q) ==
    /\ hpc[q] = "h_probe" /\ CanRun(q)
    /\ hpc' = [hpc EXCEPT ![q] = "h_listen"]
    /\ ret' = NoRet
    /\ UNCHANGED <<pc, arg, hfrom, server, bound, workers, receivers,
                   handOffReceiverPort, handOffReceiverTerminator, nextPort>>

\* The response of line 164 lets the pushing process go on after line 122
Respond(q) ==
    pc' = [pc EXCEPT ![hfrom[q]] = IF @ = "ho_wait" THEN "ho_stop" ELSE @]

\* lines 69-90 inside the receiver's handler, then line 164
HandlerListen(q) ==
    /\ hpc[q] = "h_listen"
    /\ IF ~NoServerHandle(q)
         THEN /\ Respond(q)
              /\ hpc' = [hpc EXCEPT ![q] = "idle"]
              /\ UNCHANGED <<arg, server, bound, receivers>>
         ELSE /\ server' = [server EXCEPT ![q] = TRUE]
              /\ IF BindSucceeds
                   THEN /\ bound' = [bound EXCEPT ![q] = TRUE]
                        /\ Respond(q)
                        /\ hpc' = [hpc EXCEPT ![q] = "idle"]
                        /\ UNCHANGED <<arg, receivers>>
                   ELSE Crash(q)
    /\ ret' = NoRet
    /\ UNCHANGED <<hfrom, workers, handOffReceiverPort,
                   handOffReceiverTerminator, nextPort>>

\* lines 123-135 after the push was answered or failed: the terminator of line
\* 134 has already run, line 135 stops the receiver
HandOffStop(p) ==
    /\ pc[p] = "ho_stop" /\ CanRun(p)
    /\ stopWorkerRegistry(p)
    /\ stopHandOffReceiverServer(p)
    /\ pc' = [pc EXCEPT ![p] = "idle"]
    /\ arg' = [arg EXCEPT ![p] = NoArg]
    /\ ret' = Done(p, "unregister", arg[p])
    /\ UNCHANGED <<hpc, hfrom, server, workers,
                   handOffReceiverPort, handOffReceiverTerminator, nextPort>>

\* line 135 after the await of line 134, when there was no candidate
HandOffStopReceiver(p) ==
    /\ pc[p] = "ho_stoprecv" /\ CanRun(p)
    /\ stopHandOffReceiverServer(p)
    /\ pc' = [pc EXCEPT ![p] = "idle"]
    /\ arg' = [arg EXCEPT ![p] = NoArg]
    /\ ret' = Done(p, "unregister", arg[p])
    /\ UNCHANGED <<hpc, hfrom, server, bound, workers,
                   handOffReceiverPort, handOffReceiverTerminator, nextPort>>

\* ------------------------------------------------------------ specifications
history == <<started, roundTrip, deleted>>

\* Any number of processes calling the API in any interleaving
Next ==
    \/ \E p \in Procs : StartCall(p) /\ UNCHANGED history
    \/ \E p \in Procs : StartProbeClose(p) /\ UNCHANGED history
    \/ \E p \in Procs : StartListen(p) /\ UNCHANGED history
    \/ \E p \in Procs, name \in Names, def \in CallerDefs, ok \in BOOLEAN :
          RegisterCall(p, name, def, ok) /\ UNCHANGED history
    \/ \E p \in Procs : RegisterPost(p) /\ UNCHANGED history
    \/ \E p \in Procs : GetRegisteredWorkers(p) /\ UNCHANGED history
    \/ \E p \in Procs, name \in Names : Unregister(p, name) /\ UNCHANGED history
    \/ \E p \in Procs : HandOffBegin(p) /\ UNCHANGED history
    \/ \E p \in Procs : HandOffPush(p) /\ UNCHANGED history
    \/ \E q \in Procs : HandlerProbeClose(q) /\ UNCHANGED history
    \/ \E q \in Procs : HandlerListen(q) /\ UNCHANGED history
    \/ \E p \in Procs : HandOffStop(p) /\ UNCHANGED history
    \/ \E p \in Procs : HandOffStopReceiver(p) /\ UNCHANGED history

Spec == Init /\ [][Next]_vars

\* Nothing is going on in any process: no API call outstanding, no push being served
Quiet == \A q \in Procs : pc[q] \in {"idle", "failed"} /\ hpc[q] = "idle"

\* The names of unregisterWorker calls that have completed without raising,
\* less those registerWorker has been called for since
DeletedNext ==
    deleted' = IF ret'.op = "unregister" /\ ~ret'.raised
                 THEN deleted \cup {ret'.call.name} ELSE deleted

\* The API calls made one at a time: a call begins when nothing is going on
SeqNext ==
    \/ \E p \in Procs : Quiet /\ StartCall(p) /\ DeletedNext /\ UNCHANGED <<started, roundTrip>>
    \/ \E p \in Procs : StartProbeClose(p) /\ DeletedNext /\ UNCHANGED <<started, roundTrip>>
    \/ \E p \in Procs : StartListen(p) /\ DeletedNext /\ UNCHANGED <<started, roundTrip>>
    \/ \E p \in Procs, name \in Names, def \in CallerDefs, ok \in BOOLEAN :
          /\ Quiet /\ RegisterCall(p, name, def, ok)
          /\ deleted' = deleted \ {name}
          /\ UNCHANGED <<started, roundTrip>>
    \/ \E p \in Procs : RegisterPost(p) /\ DeletedNext /\ UNCHANGED <<started, roundTrip>>
    \/ \E p \in Procs : Quiet /\ GetRegisteredWorkers(p) /\ DeletedNext
                        /\ UNCHANGED <<started, roundTrip>>
    \/ \E p \in Procs, name \in Names : Quiet /\ Unregister(p, name) /\ DeletedNext
                        /\ UNCHANGED <<started, roundTrip>>
    \/ \E p \in Procs : HandOffBegin(p) /\ DeletedNext /\ UNCHANGED <<started, roundTrip>>
    \/ \E p \in Procs : HandOffPush(p) /\ DeletedNext /\ UNCHANGED <<started, roundTrip>>
    \/ \E q \in Procs : HandlerProbeClose(q) /\ DeletedNext /\ UNCHANGED <<started, roundTrip>>
    \/ \E q \in Procs : HandlerListen(q) /\ DeletedNext /\ UNCHANGED <<started, roundTrip>>
    \/ \E p \in Procs : HandOffStop(p) /\ DeletedNext /\ UNCHANGED <<started, roundTrip>>
    \/ \E p \in Procs : HandOffStopReceiver(p) /\ DeletedNext /\ UNCHANGED <<started, roundTrip>>

SpecSeq == Init /\ [][SeqNext]_vars

\* The name process p registers in the race: one name per process
NameOf(p) == IF p % 2 = 1 THEN "a" ELSE "b"

\* Every process calls startWorkerRegistry and then registerWorker, once each,
\* in any interleaving with the others
RaceNext ==
    \/ \E p \in Procs : /\ p \notin started
                        /\ StartCall(p)
                        /\ started' = started \cup {p}
                        /\ UNCHANGED <<roundTrip, deleted>>
    \/ \E p \in Procs : StartProbeClose(p) /\ UNCHANGED history
    \/ \E p \in Procs : StartListen(p) /\ UNCHANGED history
    \/ \E p \in Procs, def \in CallerDefs :
          /\ p \in started /\ handOffReceiverPort[p] = NoPort
          /\ RegisterCall(p, NameOf(p), def, TRUE)
          /\ UNCHANGED history
    \/ \E p \in Procs : RegisterPost(p) /\ UNCHANGED history

SpecRace == Init /\ [][RaceNext]_vars

\* Processes starting the registry, registering workers and asking for the
\* workers they are bound to, one call at a time
BoundNext ==
    \/ \E p \in Procs : Quiet /\ StartCall(p) /\ UNCHANGED history
    \/ \E p \in Procs : StartProbeClose(p) /\ UNCHANGED history
    \/ \E p \in Procs : StartListen(p) /\ UNCHANGED history
    \/ \E p \in Procs, name \in Names, def \in CallerDefs, ok \in BOOLEAN :
          Quiet /\ RegisterCall(p, name, def, ok) /\ UNCHANGED history
    \/ \E p \in Procs : RegisterPost(p) /\ UNCHANGED history
    \/ \E p \in Procs, services \in Bindings, durableObjects \in Bindings :
          Quiet /\ getBoundRegisteredWorkers(p, services, durableObjects)
                /\ UNCHANGED history

SpecBound == Init /\ [][BoundNext]_vars

\* Processes starting the registry and HTTP clients sending requests to the
\* endpoints of the server that is bound, in any order
EndpointNext ==
    \/ \E p \in Procs : StartCall(p) /\ UNCHANGED history
    \/ \E p \in Procs : StartProbeClose(p) /\ UNCHANGED history
    \/ \E p \in Procs : StartListen(p) /\ UNCHANGED history
    \/ GetWorkers /\ UNCHANGED history
    \/ \E workerId \in Names, body \in Bodies : PostWorker(workerId, body) /\ UNCHANGED history
    \/ \E workerId \in Names : DeleteWorker(workerId) /\ UNCHANGED history
    \/ DeleteWorkers /\ UNCHANGED history

SpecEndpoints == Init /\ [][EndpointNext]_vars

\* roundTrip after a step that handled no request for a worker name: the
\* recorded registration is dropped when the server holding it is no longer bound
RoundTripKept ==
    roundTrip' = IF roundTrip.on /\ ~bound'[roundTrip.at] THEN NoRoundTrip ELSE roundTrip

\* Any interleaving, recording the last registration whose receiver obtained a
\* port and that a registry server stored, until a POST or DELETE for its name
\* or a push is handled by that server, or that server stops
RoundTripNext ==
    \/ \E p \in Procs : StartCall(p) /\ RoundTripKept /\ UNCHANGED <<started, deleted>>
    \/ \E p \in Procs : StartProbeClose(p) /\ RoundTripKept /\ UNCHANGED <<started, deleted>>
    \/ \E p \in Procs : StartListen(p) /\ RoundTripKept /\ UNCHANGED <<started, deleted>>
    \/ \E p \in Procs, name \in Names, def \in CallerDefs, ok \in BOOLEAN :
          RegisterCall(p, name, def, ok) /\ RoundTripKept /\ UNCHANGED <<started, deleted>>
    \/ \E p \in Procs :
          /\ RegisterPost(p)
          /\ roundTrip' =
                IF Owner = 0 THEN roundTrip
                ELSE IF arg[p].rport # NoPort
                  THEN [on |-> TRUE, at |-> Owner, name |-> arg[p].name,
                        orig |-> arg[p].orig, rport |-> arg[p].rport]
                ELSE IF arg[p].name = roundTrip.name THEN NoRoundTrip
                ELSE roundTrip
          /\ UNCHANGED <<started, deleted>>
    \/ \E p \in Procs : GetRegisteredWorkers(p) /\ RoundTripKept
                        /\ UNCHANGED <<started, deleted>>
    \/ \E p \in Procs, name \in Names :
          /\ Unregister(p, name)
          /\ roundTrip' = IF Owner # 0 /\ name = roundTrip.name THEN NoRoundTrip
                          ELSE roundTrip
          /\ UNCHANGED <<started, deleted>>
    \/ \E p \in Procs : HandOffBegin(p) /\ RoundTripKept /\ UNCHANGED <<started, deleted>>
    \/ \E p \in Procs :
          /\ HandOffPush(p)
          /\ roundTrip' = IF roundTrip.on /\ ReceiverAt(arg[p].target) = roundTrip.at
                            THEN NoRoundTrip ELSE roundTrip
          /\ UNCHANGED <<started, deleted>>
    \/ \E q \in Procs : HandlerProbeClose(q) /\ RoundTripKept /\ UNCHANGED <<started, deleted>>
    \/ \E q \in Procs : HandlerListen(q) /\ RoundTripKept /\ UNCHANGED <<started, deleted>>
    \/ \E p \in Procs : HandOffStop(p) /\ RoundTripKept /\ UNCHANGED <<started, deleted>>
    \/ \E p \in Procs : HandOffStopReceiver(p) /\ RoundTripKept
                        /\ UNCHANGED <<started, deleted>>

SpecRoundTrip == Init /\ [][RoundTripNext]_vars

\* ------------------------------------------------------------------ claims
\* C1: in every reachable state at most one process has a registry server
\* bound to the well-known port.
SingleOwner == Cardinality({p \in Procs : bound[p]}) <= 1

\* one process owns the registry while another lost the port between its
\* probe and its listen
SingleOwnerWitness ==
    \E p, q \in Procs : p # q /\ bound[p] /\ pc[q] = "failed" /\ server[q]

\* C2: when every process has called startWorkerRegistry and registered one
\* worker under its own name and all calls are over, exactly one process is
\* bound to the well-known port, no process has failed, and every process's
\* worker is in the registry of the bound process.
RaceOver ==
    \A p \in Procs :
        \/ pc[p] = "failed"
        \/ p \in started /\ handOffReceiverPort[p] # NoPort /\ pc[p] = "idle"
RaceOutcome ==
    RaceOver =>
        /\ Cardinality({p \in Procs : bound[p]}) = 1
        /\ \A p \in Procs : Alive(p)
        /\ \A p \in Procs : NameOf(p) \in DOMAIN workers[Owner]

\* C3: when a process that was bound to the well-known port, with another
\* process listening on a receiver port registered in its registry, has
\* completed unregisterWorker while nothing else was going on, another process
\* is bound to the well-known port and its registry is the pushed registry.
HandoffCorrect ==
    (ret.op = "unregister" /\ ret.served /\ ret.call.owner /\ ret.call.cand) =>
        \E q \in Procs \ {ret.proc} : bound[q] /\ workers[q] = ret.call.body

\* a hand-off that went through: the registry moved, with its entries, to the
\* other process
HandoffDone ==
    /\ ret.op = "unregister" /\ ret.call.owner /\ ret.call.cand
    /\ ret.call.body # EmptyRegistry
    /\ \E q \in Procs \ {ret.proc} : bound[q] /\ workers[q] = ret.call.body

\* C4: a getRegisteredWorkers call, made while the registry server that stored
\* the last registerWorker(a, D) is still bound and has handled no POST or
\* DELETE for a and no push since, returns a registry in which a maps to D with
\* handOffReceiverPort set to the port of the receiver that call started.
RoundTrip ==
    (ret.op = "get" /\ roundTrip.on) =>
        /\ ret.defined
        /\ roundTrip.name \in DOMAIN ret.reg
        /\ ret.reg[roundTrip.name] =
              [roundTrip.orig EXCEPT !.handOffReceiverPort = roundTrip.rport]

\* a registration whose definition carried a handOffReceiverPort of its own is
\* read back while another worker is registered too
RoundTripWitness ==
    /\ ret.op = "get" /\ roundTrip.on
    /\ roundTrip.orig.handOffReceiverPort = BogusPort
    /\ Cardinality(DOMAIN ret.reg) = 2

AbsenceTolerated ==
    (/\ ret.op \in {"get", "unregister", "register"}
     /\ ~ret.served
     /\ ret.code \in {"ECONNREFUSED", "ECONNRESET"}) =>
        /\ ~ret.raised
        /\ Alive(ret.proc)
        /\ ret.op = "get" => ~ret.defined

\* getRegisteredWorkers meets a reset connection while a probe holds the port
AbsenceWitness ==
    /\ ret.op = "get" /\ ~ret.served /\ ret.code = "ECONNRESET"
    /\ Owner = 0 /\ ~ret.raised /\ ~ret.defined

\* the keys a list of bindings names
NamedIn(b) == IF b.defined THEN {b.list[i] : i \in 1..Len(b.list)} ELSE {}

\* C7: getBoundRegisteredWorkers(S, B) returns exactly the entries of the
\* registry whose key is a service name in S or a script_name in B, values
\* unchanged, and the empty map when no registry answers; the registry is the
\* same after the call.
Filtering ==
    (ret.op = "getBound" /\ ~ret.raised) =>
        LET R == IF Owner # 0 THEN workers[Owner] ELSE EmptyRegistry
            keys == DOMAIN R \cap (NamedIn(ret.call.services) \cup NamedIn(ret.call.durableObjects))
        IN /\ ret.defined
           /\ DOMAIN ret.reg = keys
           /\ \A k \in keys : ret.reg[k] = R[k]
           /\ ret.served = (Owner # 0)

\* of two registered workers one is named by the durable-object bindings only
\* and the other by no binding
FilteringWitness ==
    /\ ret.op = "getBound" /\ ret.served
    /\ Cardinality(DOMAIN workers[Owner]) = 2
    /\ NamedIn(ret.call.services) \cap DOMAIN workers[Owner] = {}
    /\ Cardinality(DOMAIN ret.reg) = 1

\* C8: every entry of the owner's registry that carries a handOffReceiverPort
\* names a port on which a hand-off receiver is listening.
ReceiverPortsLive ==
    Owner # 0 =>
        \A n \in DOMAIN workers[Owner] :
            workers[Owner][n].handOffReceiverPort # NoPort =>
                \E q \in Procs : workers[Owner][n].handOffReceiverPort \in receivers[q]

\* C9: a registerWorker call made while no process is bound to the well-known
\* port ends with the calling process bound to it and the name in its registry.
RegisterStartsRegistry ==
    (ret.op = "register" /\ ret.call.free) =>
        /\ bound[ret.proc]
        /\ ret.call.name \in DOMAIN workers[ret.proc]

\* C10: when an unregisterWorker call has completed without raising, whether
\* its DELETE was answered or failed for want of a registry, the hand-off
\* receiver of the calling process is no longer listening.
UnregisterStopsReceiver ==
    (ret.op = "unregister" /\ ~ret.raised) =>
        handOffReceiverTerminator[ret.proc] \notin receivers[ret.proc]

\* C11: every request a bound registry server handles changes its registry as
\* the same request changes a reference map: POST sets the named key to the
\* body and no other key, DELETE of a name removes that key and no other (and
\* nothing when the key is absent), DELETE /workers leaves the empty map, GET
\* returns the map and leaves it as it is; the server stays bound.
EndpointRefinement ==
    [][LET o == ret'.proc
           n == ret'.call.name
           handled == ret'.op \in {"GET", "POST", "DELETE", "DELETEALL"}
           before == IF handled THEN workers[o] ELSE EmptyRegistry
           after == IF handled THEN workers'[o] ELSE EmptyRegistry
       IN /\ handled => bound[o] /\ bound'[o]
          /\ ret'.op = "POST" =>
                /\ DOMAIN after = DOMAIN before \cup {n}
                /\ after[n] = ret'.call.def
                /\ \A k \in DOMAIN before \ {n} : after[k] = before[k]
          /\ ret'.op = "DELETE" =>
                /\ DOMAIN after = DOMAIN before \ {n}
                /\ \A k \in DOMAIN after : after[k] = before[k]
          /\ ret'.op = "DELETEALL" => DOMAIN after = {}
          /\ ret'.op = "GET" => after = before /\ ret'.reg = before /\ ret'.defined
      ]_vars

\* a DELETE of one name was handled and the other name is still registered
EndpointWitness ==
    /\ ret.op = "DELETE"
    /\ DOMAIN workers[ret.proc] = Names \ {ret.call.name}

\* C12: the target handOff has chosen is never the port of a hand-off receiver
\* of the process that hands off, so no push is delivered to its sender.
NoSelfHandoff ==
    \A p \in Procs : pc[p] = "ho_push" => arg[p].target \notin receivers[p]

\* C13: when an unregisterWorker call whose DELETE was answered has completed,
\* the calling process is not bound to the well-known port and none of the
\* hand-off receivers it started is listening.
UnregisterReleasesAll ==
    (ret.op = "unregister" /\ ret.served) =>
        /\ ~bound[ret.proc]
        /\ receivers[ret.proc] = {}

\* C14: when the push of a handOff failed, the unregisterWorker call that ran
\* it completes without raising, with the registry server of the calling
\* process stopped and its hand-off receiver no longer listening.
HandoffFailureTolerated ==
    (ret.op = "unregister" /\ ret.call.pushfail) =>
        /\ ~ret.raised
        /\ Alive(ret.proc)
        /\ ~bound[ret.proc]
        /\ handOffReceiverTerminator[ret.proc] \notin receivers[ret.proc]

\* the owner's push was refused because the chosen receiver no longer listens,
\* and with the owner gone no registry is left
HandoffFailureWitness ==
    /\ ret.op = "unregister" /\ ret.call.pushfail /\ ret.call.owner
    /\ ret.call.body # EmptyRegistry
    /\ Owner = 0

\* C15: a process that is about to push, or waits for the answer to its push,
\* is not bound to the well-known port, so the sender of a push a receiver is
\* handling is not bound; and no hand-off receiver of that process stops
\* before its push has been answered or has failed.
PushAfterRelease ==
    /\ [](/\ \A p \in Procs : pc[p] \in {"ho_push", "ho_wait"} => ~bound[p]
          /\ \A q \in Procs : hpc[q] # "idle" => ~bound[hfrom[q]])
    /\ [][\A p \in Procs :
            (pc[p] \in {"ho_push", "ho_wait"} /\ pc'[p] \in {"ho_push", "ho_wait", "ho_stop"})
                => receivers'[p] = receivers[p]]_vars

\* a receiver of another process is handling the push of a former owner whose
\* own receiver is still listening
PushAfterReleaseWitness ==
    \E q \in Procs :
        /\ hpc[q] = "h_listen" /\ hfrom[q] # q
        /\ pc[hfrom[q]] = "ho_wait" /\ arg[hfrom[q]].owner
        /\ handOffReceiverTerminator[hfrom[q]] \in receivers[hfrom[q]]

\* C16: a registerWorker call whose hand-off receiver obtained no port
\* registers the worker without a handOffReceiverPort.
DegradedRegistration ==
    (ret.op = "register" /\ ret.served /\ ret.call.rport = NoPort) =>
        \E q \in Procs :
            /\ bound[q]
            /\ ret.call.name \in DOMAIN workers[q]
            /\ workers[q][ret.call.name].handOffReceiverPort = NoPort

\* C17: a process becomes bound to the well-known port, and its server handle
\* is set, only in the step that follows a probe which found the port free and
\* only when it had no server handle, so that no call creates a second server;
\* and a process that is bound has its server handle set.
IdempotentStart ==
    /\ [](\A p \in Procs : bound[p] => server[p])
    /\ [][\A p \in Procs :
            ((bound'[p] /\ ~bound[p]) \/ server'[p] # server[p]) =>
                /\ InListen(p)
                /\ ~server[p] /\ server'[p]]_vars

\* a direct startWorkerRegistry call met the probe of the same process's
\* hand-off receiver handler and returned without creating a server
IdempotentStartWitness ==
    /\ ret.op = "start" /\ ~ret.call.free
    /\ hpc[ret.proc] = "h_probe"
    /\ ~server[ret.proc]

\* C18: the target handOff chooses is the handOffReceiverPort of an entry of
\* the process's registry whose port is set and is not the process's own
\* handOffReceiverPort, and when handOff is about to choose, every such entry
\* can be the one chosen.
CandidateSelection ==
    /\ [][\A p \in Procs :
            (pc[p] = "ho_begin" /\ pc'[p] = "ho_push") =>
                \E n \in DOMAIN workers[p] :
                    /\ workers[p][n].handOffReceiverPort # NoPort
                    /\ workers[p][n].handOffReceiverPort # handOffReceiverPort[p]
                    /\ arg'[p].target = workers[p][n].handOffReceiverPort]_vars
    /\ [](\A p \in Procs :
            (pc[p] = "ho_begin" /\ server[p] /\ CanRun(p)) =>
                \A n \in DOMAIN workers[p] :
                    (/\ workers[p][n].handOffReceiverPort # NoPort
                     /\ workers[p][n].handOffReceiverPort # handOffReceiverPort[p]) =>
                        ENABLED (/\ HandOffBegin(p)
                                 /\ arg'[p].target = workers[p][n].handOffReceiverPort))

\* of two candidates with different ports the second has been chosen
CandidateSelectionWitness ==
    \E p \in Procs :
        /\ pc[p] = "ho_push"
        /\ DOMAIN workers[p] = {"a", "b"}
        /\ workers[p]["a"].handOffReceiverPort \notin {NoPort, handOffReceiverPort[p]}
        /\ workers[p]["b"].handOffReceiverPort \notin
              {NoPort, handOffReceiverPort[p], workers[p]["a"].handOffReceiverPort}
        /\ arg[p].target = workers[p]["b"].handOffReceiverPort

\* C19: a process that is about to push its registry was bound to the
\* well-known port when its handOff began.
OnlyOwnerHandsOff ==
    \A p \in Procs : pc[p] = "ho_push" => arg[p].owner

\* C20: a startWorkerRegistry call whose probe found the well-known port free
\* ends with the calling process bound to it.
OwnershipReacquired ==
    (ret.op = "start" /\ ret.call.free) => bound[ret.proc]
====
